---- MODULE Spec2Model ----
(***************************************************************************)
(* Model of request-sim: the writer-priority spin rwlock of src/lib.rs,    *)
(* the open-loop dispatcher / reporter / supervisor of src/requester.rs    *)
(* and src/client.rs, the token sampler of src/token_sampler.rs, the       *)
(* request cursor of src/dataset.rs and the prompt materializer.           *)
(*                                                                         *)
(* The specifications of the module, over one list of variables:           *)
(*   LockSpec     threads calling SpinRwLock read_lock / read_unlock /     *)
(*                write_lock / write_unlock, one atomic access per step;   *)
(*   Spec         one run of the load generator: dispatcher, request       *)
(*                tasks, wait set, reporter and supervisor;                *)
(*   ApiSpec      the same run with every adapter;                         *)
(*   SamplerSpec  TokenSampler::new, the producer threads and callers of   *)
(*                gen_string;                                              *)
(*   IterSpec     concurrent callers of Dataset::next_request;             *)
(*   InflateSpec  concurrent inflate calls sharing the chunk cache;        *)
(*   RequestSpec  one request task with the values of its record;          *)
(*   ReportFairSpec  report_loop, its channel and its output file;         *)
(*   LoaderSpec   the trace loaders of src/dataset.rs on a trace file;     *)
(*   GenSpec      the rejection loop of generate_block;                    *)
(*   SamplerFairSpec  the sampler with its threads scheduled fairly.       *)
(***************************************************************************)
EXTENDS Integers, Sequences, FiniteSets, TLC

(* ------------------------------ bounds -------------------------------- *)
NumThreads == 3

TraceLen == 2

MaxTs == 2

MaxInterval == 2

RunTime == 2

MaxTime == 3

BlockSize == 3

MaxCapacity == 2

WarmupSends == 2

NumProducers == 1

NumConsumers == 2

\* the gen_string calls made on one sampler, by all consumers together
MaxCalls == 3

NumCallers == 2

MaxDatasetSize == 3

MaxFetches == 5

NumInflaters == 2

MaxHashes == 2

MaxStartDelay == 2

MaxDelay == 2

MaxOutputLength == 460

MaxRecords == 3

MaxSenders == 2

MaxLines == 2

MaxRejections == 3

Threads == 1..NumThreads

VARIABLES
    state,      \* SpinRwLock.state: [readers, waiter, writer] fields of the word
    pc,         \* per thread: position inside read_lock / write_lock
    s           \* per thread: the local `s` loaded from state

VARIABLES
    mode,           \* "replay": spawn_request_loop_with_timestamp, "synthetic":
                    \* spawn_request_loop, "debug": spawn_request_loop_debug
    api,            \* the adapter A whose parse_response the request tasks call
    timestamps,     \* dataset.timestamp(i), ms
    scale_factor,   \* replay scale factor
    now,            \* get_timestamp(): ms since BASETIME
    data_iter,      \* dataset.iter(): the next index it yields
    dpc,            \* dispatcher task position
    data_index,     \* the dispatcher's loop variable
    wake,           \* deadline of the dispatcher's sleep
    timestamp,      \* synthetic mode: the running `timestamp`
    stop,           \* stop channel: "empty", "sent", "taken"
    task,           \* per trace index: state of its request task
    spawned,        \* indices in the order their request tasks were spawned
    tx,             \* wait set: join handles sent and not yet received
    wpc,            \* wait_all position
    whandle,        \* the handle wait_all is awaiting
    RETURNCODE,     \* the static AtomicI32 of spawn_request_loop_with_timestamp
    handle,         \* outcome of the returned join handle
    response,       \* metrics channel response_sender -> response_receiver
    rpc,            \* report_loop position
    output,         \* lines written and flushed to the output file
    spc,            \* supervisor (async_main) position
    history         \* what the dispatcher did: the start time, the intervals drawn,
                    \* the scheduled time at each spawn, the spawns when stop was sent

VARIABLES
    tokenizer,          \* TokenSampler.tokenizer with its splitter
    block_size,         \* TokenSampler.block_size
    channel_capacity,   \* capacity of the primary pool and of every ragged pool
    primary,            \* the primary pool: bounded channel tx -> receiver
    ragged,             \* ragged_block_cache / ragged_block_sender: size -> pool
    notify,             \* the unbounded channel notify_tx -> notify_rx
    warm,               \* TokenSampler::new: the size being warmed up and its pool
    constructed,        \* TokenSampler::new has returned
    producer,           \* per producer thread: position and local_sample
    consumer,           \* per caller of gen_string: position, n, returned block
    connected,      \* the TokenSampler, with its receiver and notify_tx, is not dropped
    poisoned,           \* the ragged_block_cache mutex is poisoned
    receiver_guard      \* the consumer holding the guard of the receiver mutex, or 0

VARIABLES
    dataset_size,   \* Dataset.dataset_size
    next,           \* Dataset.next: the AtomicUsize cursor
    caller          \* per caller of next_request: position, next_index, results

VARIABLES
    entries,        \* the trace entries being inflated
    CC,             \* the chunk cache: chunk hash -> text
    first_inserted, \* per chunk hash, the text of its first insertion
    inflater        \* per inflate call: position, hash position, block, prompt

VARIABLES
    clock,          \* the run clock of the request task: get_timestamp(), in ms
    call,           \* what the task was spawned for: loop, adapter, entry
    rq,             \* the request task: position, s_time, timeout, reply
    emitted         \* the maps the task has sent to the reporter

VARIABLES
    channel,        \* the metrics channel: the records sent and not yet received
    senders,        \* the number of live senders of the metrics channel
    sentlog,        \* every record sent so far, in order
    rp,             \* report_loop: position and the line being written
    buf_writer,     \* the bytes held by the BufWriter
    file            \* the bytes of the output file

VARIABLES
    ld,             \* a trace loader: its arguments, the lines left, the requests
    gen             \* a call of generate_block: its arguments and its loop

lockVars == <<state, pc, s>>

runVars == <<mode, api, timestamps, scale_factor, now, data_iter, dpc, data_index, wake,
             timestamp, stop, task, spawned, tx, wpc, whandle, RETURNCODE, handle,
             response, rpc, output, spc, history>>

samplerVars == <<tokenizer, block_size, channel_capacity, primary, ragged, notify, warm,
                 constructed, producer, consumer, poisoned, connected, receiver_guard>>

iterVars == <<dataset_size, next, caller>>

cacheVars == <<entries, CC, first_inserted, inflater>>

requestVars == <<clock, call, rq, emitted>>

reportVars == <<channel, senders, sentlog, rp, buf_writer, file>>

outsideLock ==
    <<runVars, samplerVars, iterVars, cacheVars, requestVars, reportVars, ld, gen>>

outsideRun ==
    <<lockVars, samplerVars, iterVars, cacheVars, requestVars, reportVars, ld, gen>>

outsideSampler ==
    <<lockVars, runVars, iterVars, cacheVars, requestVars, reportVars, ld, gen>>

outsideIter ==
    <<lockVars, runVars, samplerVars, cacheVars, requestVars, reportVars, ld, gen>>

outsideCache ==
    <<lockVars, runVars, samplerVars, iterVars, requestVars, reportVars, ld, gen>>

outsideRequest ==
    <<lockVars, runVars, samplerVars, iterVars, cacheVars, reportVars, ld, gen>>

outsideReport ==
    <<lockVars, runVars, samplerVars, iterVars, cacheVars, requestVars, ld, gen>>

outsideLoader ==
    <<lockVars, runVars, samplerVars, iterVars, cacheVars, requestVars, reportVars, gen>>

outsideGen ==
    <<lockVars, runVars, samplerVars, iterVars, cacheVars, requestVars, reportVars, ld>>

vars ==
    <<lockVars, runVars, samplerVars, iterVars, cacheVars, requestVars, reportVars, ld, gen>>

(* ---------------------- SpinRwLock (src/lib.rs) ------------------------ *)
(* The usize word is kept as a record: readers is the value under          *)
(* READER_MASK, writer is WRITER_BIT, waiter is WAITER_BIT.                *)
Word(r, wt, wr) == [readers |-> r, waiter |-> wt, writer |-> wr]

ZeroWord == Word(0, FALSE, FALSE)

\* the word WAITER_BIT alone, and the word WRITER_BIT alone
WAITER_BIT == Word(0, TRUE, FALSE)

WRITER_BIT == Word(0, FALSE, TRUE)

\* s & (WRITER_BIT | WAITER_BIT) != 0
HasWriterBits(w) == w.writer \/ w.waiter

\* s + 1 on a word whose reader field does not overflow
IncReaders(w) == [w EXCEPT !.readers = @ + 1]

\* s | WAITER_BIT
OrWaiter(w) == [w EXCEPT !.waiter = TRUE]

\* a thread enters read_lock
read_lock_call(t) ==
    /\ pc[t] = "idle"
    /\ UNCHANGED outsideLock
    /\ pc' = [pc EXCEPT ![t] = "r_load"]
    /\ UNCHANGED <<state, s>>

\* faulty variant of the read_lock guard: it looks at WRITER_BIT only
ReadMayTry_WriterOnly(w) == ~w.writer

\* the guard of read_lock on the loaded word: no writer, no waiter
ReadMayTry(w) == ~HasWriterBits(w)

\* let s = state.load(); if s & (WRITER_BIT|WAITER_BIT) != 0 { backoff; continue }
read_lock_load(t) ==
    /\ pc[t] = "r_load"
    /\ UNCHANGED outsideLock
    /\ s' = [s EXCEPT ![t] = state]
    /\ pc' = [pc EXCEPT ![t] = IF ReadMayTry(state) THEN "r_cas" ELSE "r_load"]
    /\ UNCHANGED state

\* compare_exchange_weak(s, s + 1) succeeded: reader admitted
read_lock_cas_ok(t) ==
    /\ pc[t] = "r_cas"
    /\ UNCHANGED outsideLock
    /\ state = s[t]
    /\ state' = IncReaders(s[t])
    /\ pc' = [pc EXCEPT ![t] = "reading"]
    /\ UNCHANGED s

\* compare_exchange_weak failed (value changed, or spuriously): backoff, retry
read_lock_cas_fail(t) ==
    /\ pc[t] = "r_cas"
    /\ UNCHANGED outsideLock
    /\ pc' = [pc EXCEPT ![t] = "r_load"]
    /\ UNCHANGED <<state, s>>

\* state.fetch_sub(1)
read_unlock(t) ==
    /\ pc[t] = "reading"
    /\ UNCHANGED outsideLock
    /\ state' = [state EXCEPT !.readers = @ - 1]
    /\ pc' = [pc EXCEPT ![t] = "idle"]
    /\ UNCHANGED s

\* a thread enters write_lock
write_lock_call(t) ==
    /\ pc[t] = "idle"
    /\ UNCHANGED outsideLock
    /\ pc' = [pc EXCEPT ![t] = "w_mark_load"]
    /\ UNCHANGED <<state, s>>

\* first loop: let s = state.load(); if s & WAITER_BIT == 0 try the CAS, else backoff
write_lock_mark_load(t) ==
    /\ pc[t] = "w_mark_load"
    /\ UNCHANGED outsideLock
    /\ s' = [s EXCEPT ![t] = state]
    /\ pc' = [pc EXCEPT ![t] = IF ~state.waiter THEN "w_mark_cas" ELSE "w_mark_load"]
    /\ UNCHANGED state

\* compare_exchange_weak(s, s | WAITER_BIT) succeeded: "self is the waiter now"
write_lock_mark_ok(t) ==
    /\ pc[t] = "w_mark_cas"
    /\ UNCHANGED outsideLock
    /\ state = s[t]
    /\ state' = OrWaiter(s[t])
    /\ pc' = [pc EXCEPT ![t] = "w_acq_load"]
    /\ UNCHANGED s

\* compare_exchange_weak failed (value changed, or spuriously): reload
write_lock_mark_fail(t) ==
    /\ pc[t] = "w_mark_cas"
    /\ UNCHANGED outsideLock
    /\ pc' = [pc EXCEPT ![t] = "w_mark_load"]
    /\ UNCHANGED <<state, s>>

\* second loop: let s = state.load(); if no readers and no writer try the CAS
write_lock_acq_load(t) ==
    /\ pc[t] = "w_acq_load"
    /\ UNCHANGED outsideLock
    /\ s' = [s EXCEPT ![t] = state]
    /\ pc' = [pc EXCEPT ![t] =
                IF state.readers = 0 /\ ~state.writer THEN "w_acq_cas" ELSE "w_acq_load"]
    /\ UNCHANGED state

\* faulty variant: the CAS compares the two writer bits only, not the reader count
AcqCasMatches_BitsOnly(w) == w.waiter /\ ~w.writer

\* compare_exchange(WAITER_BIT, ..): the current word equals WAITER_BIT exactly
AcqCasMatches(w) == w = WAITER_BIT

\* compare_exchange(WAITER_BIT, WRITER_BIT) succeeded: write lock held
write_lock_acq_ok(t) ==
    /\ pc[t] = "w_acq_cas"
    /\ UNCHANGED outsideLock
    /\ AcqCasMatches(state)
    /\ state' = WRITER_BIT
    /\ pc' = [pc EXCEPT ![t] = "writing"]
    /\ UNCHANGED s

\* compare_exchange(WAITER_BIT, WRITER_BIT) failed: the word is not WAITER_BIT
write_lock_acq_fail(t) ==
    /\ pc[t] = "w_acq_cas"
    /\ UNCHANGED outsideLock
    /\ ~AcqCasMatches(state)
    /\ pc' = [pc EXCEPT ![t] = "w_acq_load"]
    /\ UNCHANGED <<state, s>>

\* the word write_unlock stores: state.swap(0)
UnlockedWord(w) == ZeroWord

write_unlock(t) ==
    /\ pc[t] = "writing"
    /\ UNCHANGED outsideLock
    /\ state' = UnlockedWord(state)
    /\ pc' = [pc EXCEPT ![t] = "idle"]
    /\ UNCHANGED s

LockStep(t) ==
    \/ read_lock_call(t)
    \/ read_lock_load(t)
    \/ read_lock_cas_ok(t)
    \/ read_lock_cas_fail(t)
    \/ read_unlock(t)
    \/ write_lock_call(t)
    \/ write_lock_mark_load(t)
    \/ write_lock_mark_ok(t)
    \/ write_lock_mark_fail(t)
    \/ write_lock_acq_load(t)
    \/ write_lock_acq_ok(t)
    \/ write_lock_acq_fail(t)
    \/ write_unlock(t)

(* ------- dispatcher, request tasks, wait set (src/requester.rs) -------- *)
Indices == 0..(TraceLen - 1)

Modes == {"replay", "synthetic", "debug"}

\* the adapters: apis/distserve_api.rs, protocols/tgi_api.rs, protocols/mock_protocol.rs
Apis == {"Distserve", "TGI", "Mock"}

ScaleFactors == {1, 2}

\* interval_generator.interval_in_millis().round() as u64
Intervals == 0..MaxInterval

(* ---------------- TokenSampler (src/token_sampler.rs) ------------------- *)
(* A text is a sequence of characters and a token is the text it decodes   *)
(* to. Two small tokenizers stand for the Tokenizer the sampler is given:  *)
(* one with a pad token, whose vocabulary has a pair that merges ("a","a"  *)
(* re-encode as "aa") and a token that decodes to nothing, and one without *)
(* a pad token, with bos and eos.                                          *)
PadTokenizer ==
    [splitter |-> <<"P">>,
     vocab |-> {<<"a">>, <<"a", "a">>, << >>, <<"P">>}]

BosEosTokenizer ==
    [splitter |-> <<"S", "E">>,
     vocab |-> {<<"a">>, <<"S">>, <<"E">>}]

Tokenizers == {PadTokenizer, BosEosTokenizer}

\* tokenizer.decode(ids, false): the texts of the ids, concatenated
RECURSIVE decode(_)
decode(ids) == IF ids = << >> THEN << >> ELSE Head(ids) \o decode(Tail(ids))

\* tokenizer.encode(text, false): longest match first, left to right
RECURSIVE encode(_, _)
encode(text, vocab) ==
    IF text = << >>
      THEN << >>
      ELSE IF Len(text) >= 2 /\ SubSeq(text, 1, 2) \in vocab
             THEN <<SubSeq(text, 1, 2)>> \o encode(SubSeq(text, 3, Len(text)), vocab)
             ELSE <<SubSeq(text, 1, 1)>> \o encode(Tail(text), vocab)

\* ids.truncate(k)
truncate(ids, k) == SubSeq(ids, 1, IF Len(ids) < k THEN Len(ids) ELSE k)

\* result.insert_str(0, splitter[0]); result.push_str(splitter[1] or splitter[0])
Wrap(body, sp) == <<sp[1]>> \o body \o <<sp[Len(sp)]>>

\* one pass of the loop of generate_block on the drawn token ids
Candidate(tokens, n, tk) ==
    Wrap(decode(truncate(encode(decode(tokens), tk.vocab), n - 2)), tk.splitter)

\* the draws of 2n ids from the vocabulary
Draws(n, tk) == [1..(2 * n) -> tk.vocab]

\* if reencoded_len == n { return result; }
Accepts(r, n, tk) == Len(encode(r, tk.vocab)) = n

\* generate_block(tokenizer, splitter, n): every block it can return
generate_block(n, tk) ==
    IF n = 0 THEN {<< >>}
    ELSE IF n = 1 THEN {<<tk.splitter[1]>>}
    ELSE IF n = 2
      THEN {IF Len(tk.splitter) = 2
              THEN <<tk.splitter[1], tk.splitter[2]>>
              ELSE <<tk.splitter[1], tk.splitter[1]>>}
      ELSE {r \in {Candidate(t, n, tk) : t \in Draws(n, tk)} : Accepts(r, n, tk)}

\* generate_block tabulated for the sizes the sampler is asked for
Blocks == [tk \in Tokenizers |-> [n \in 0..BlockSize |-> generate_block(n, tk)]]

Producers == 1..NumProducers

Consumers == 1..NumConsumers

Callers == 1..NumCallers

\* the ragged sizes of a sampler of block size b: for i in 1..block_size
RaggedSizes(b) == 1..(b - 1)

\* the sampler when TokenSampler::new has spawned the producers and is about
\* to start the warm-up
SamplerFresh(tk, b, cap) ==
    /\ tokenizer = tk
    /\ block_size = b
    /\ channel_capacity = cap
    /\ primary = << >>
    /\ ragged = << >>
    /\ notify = << >>
    /\ warm = [i |-> 1, pool |-> << >>]
    /\ constructed = FALSE
    /\ producer = [p \in Producers |-> [pc |-> "offer", local_sample |-> << >>]]
    /\ consumer = [c \in Consumers |-> [pc |-> "idle", n |-> 0, ret |-> << >>, calls |-> 0]]
    /\ poisoned = FALSE
    /\ connected = TRUE
    /\ receiver_guard = 0

\* Dataset::new: the cursor at 0 and no request handed out
IterFresh(n) ==
    /\ dataset_size = n
    /\ next = 0
    /\ caller = [c \in Callers |-> [pc |-> "idle", next_index |-> 0, got |-> << >>]]

\* the chunk hashes a trace uses
Hashes == {8, 9}

\* the entries { input_length, chunk_hashes } of a trace with block size b:
\* 0 <= input_length - (len(chunk_hashes) - 1) * B <= B
TraceEntries(b) ==
    {e \in [input_length : 0..(MaxHashes * b),
            chunk_hashes : UNION {[1..k -> Hashes] : k \in 1..MaxHashes}] :
       /\ 0 <= e.input_length - (Len(e.chunk_hashes) - 1) * b
       /\ e.input_length - (Len(e.chunk_hashes) - 1) * b <= b}

Inflaters == 1..NumInflaters

\* the empty chunk cache and one inflate call per entry, not yet started
CacheFresh(es) ==
    /\ entries = es
    /\ CC = << >>
    /\ first_inserted = << >>
    /\ inflater = [w \in Inflaters |->
                     [pc |-> "idle", k |-> 1, block |-> << >>, prompt |-> << >>]]

\* map.entry(h).or_insert(text): a no-op when h is mapped
InsertIfAbsent(map, h, text) ==
    IF h \in DOMAIN map THEN map ELSE map @@ (h :> text)

\* map.insert(h, text): replaces the mapped text
Overwrite(map, h, text) ==
    [x \in DOMAIN map \cup {h} |-> IF x = h THEN text ELSE map[x]]

\* a request task spawned for the call c, not yet polled
RequestFresh(c) ==
    /\ call = c
    /\ clock = 0
    /\ rq = [pc |-> "spawned", s_time |-> 0, timeout |-> 0, reply |-> << >>]
    /\ emitted = << >>

\* report_loop spawned on the created file, with n holders of a sender
ReportFresh(n) ==
    /\ channel = << >>
    /\ senders = n
    /\ sentlog = << >>
    /\ rp = [pc |-> "recv", line |-> 0]
    /\ buf_writer = << >>
    /\ file = << >>

\* a loader called with the arguments l on a file of the lines in l.lines
LoaderFresh(l) ==
    ld = [kind |-> l.kind, shuffle |-> l.shuffle, prefill_only |-> l.prefill_only,
          filter_long_context |-> l.filter_long_context, lines |-> l.lines,
          requests |-> << >>, pc |-> "reading"]

\* generate_block(tokenizer, splitter, n) entered
GenFresh(n, tk) ==
    gen = [n |-> n, tk |-> tk, pc |-> "match", tokens |-> << >>, result |-> << >>,
           rejections |-> 0]

\* the components a specification does not exercise stay as constructed
Rest(exercised) ==
    /\ "request" \in exercised \/ RequestFresh([mode |-> "replay", api |-> "Mock",
                                     data_index |-> 0, input_length |-> 1,
                                     output_length |-> 1, next_timestamp |-> 0])
    /\ "report" \in exercised \/ ReportFresh(1)
    /\ "loader" \in exercised \/ LoaderFresh([kind |-> "azure_csv", shuffle |-> FALSE,
                                     prefill_only |-> FALSE,
                                     filter_long_context |-> FALSE, lines |-> << >>])
    /\ "gen" \in exercised \/ GenFresh(0, PadTokenizer)
    /\ "sampler" \in exercised \/ SamplerFresh(PadTokenizer, 1, 1)
    /\ "iter" \in exercised \/ IterFresh(1)
    /\ "cache" \in exercised \/ CacheFresh([w \in Inflaters |->
                                   [input_length |-> 0, chunk_hashes |-> <<8>>]])

\* SpinRwLock::new() with every thread outside the lock, and the run right after
\* async_main has spawned the dispatcher and the reporter
FreshRun(m, a, ts, sf) ==
    /\ state = ZeroWord
    /\ pc = [t \in Threads |-> "idle"]
    /\ s = [t \in Threads |-> ZeroWord]
    /\ mode = m
    /\ api = a
    /\ timestamps = ts
    /\ scale_factor = sf
    /\ now = 0
    /\ data_iter = 0
    /\ dpc = "start"
    /\ data_index = 0
    /\ wake = 0
    /\ timestamp = 0
    /\ stop = "empty"
    /\ task = [i \in Indices |-> "unspawned"]
    /\ spawned = <<>>
    /\ tx = <<>>
    /\ wpc = "recv"
    /\ whandle = 0
    /\ RETURNCODE = 0
    /\ handle = "pending"
    /\ response = <<>>
    /\ rpc = "recv"
    /\ output = <<>>
    /\ spc = "sleep"
    /\ history = [start |-> 0, intervals |-> <<>>, scheduled |-> <<>>,
                  spawned_at_stop |-> 0]

\* the lock and the run as constructed, beside the other components
Fresh(m, a, ts, sf) == FreshRun(m, a, ts, sf) /\ Rest({})

\* a trace whose entries are all due at once
DueAtOnce == [i \in Indices |-> 0]

\* a run of any of the three loops over any trace, with the Distserve adapter,
\* whose request tasks have every outcome an adapter can cause; the synthetic
\* loop never reads the trace timestamps nor a scale factor
Init ==
    \/ \E ts \in [Indices -> 0..MaxTs], sf \in ScaleFactors :
          Fresh("replay", "Distserve", ts, sf)
    \/ \E ts \in [Indices -> 0..MaxTs], sf \in ScaleFactors :
          Fresh("debug", "Distserve", ts, sf)
    \/ Fresh("synthetic", "Distserve", DueAtOnce, 1)

\* a run of any of the three loops with any adapter, over a trace due at once
ApiInit == \E m \in Modes, a \in Apis : Fresh(m, a, DueAtOnce, 1)

\* the lock is exercised on its own, before the run starts
LockInit == Fresh("replay", "Distserve", DueAtOnce, 1)

\* a panic of async_main unwinds block_on and ends the process
Alive == spc # "panicked"

\* dataset.iter(): yields 0, 1, .., len()-1 and then None
IterHasNext == data_iter < TraceLen

\* faulty variant: the send time ignores the scale factor
SendAt_Unscaled(i) == timestamps[i]

\* ((*dataset).timestamp(data_index) as f64 / scale_factor) as u64
SendAt(i) == timestamps[i] \div scale_factor

\* let mut timestamp = get_timestamp(); let data_iter = dataset.iter();
D_Start ==
    /\ Alive
    /\ UNCHANGED outsideRun
    /\ dpc = "start"
    /\ timestamp' = IF mode = "synthetic" THEN now ELSE timestamp
    /\ history' = IF mode = "synthetic" THEN [history EXCEPT !.start = now] ELSE history
    /\ dpc' = "iter"
    /\ UNCHANGED <<mode, api, timestamps, scale_factor, now, data_iter, data_index, wake,
                   stop, task, spawned, tx, wpc, whandle, RETURNCODE, handle,
                   response, rpc, output, spc>>

\* faulty variant: the stop branch says `continue`
AfterStopSeen_Continue == "iter"

\* faulty variant: the stop branch goes on with the iteration
AfterStopSeen_Ignored == IF mode # "synthetic" THEN "gate" ELSE "inflate"

\* if stopped.try_recv().is_ok() { break; }
AfterStopSeen == "done"

\* for data_index in data_iter { if <stop>.try_recv().is_ok() { break; } ..
D_Head ==
    /\ Alive
    /\ UNCHANGED outsideRun
    /\ UNCHANGED history
    /\ dpc = "iter"
    /\ IF ~IterHasNext
         THEN /\ dpc' = "done"
              /\ UNCHANGED <<data_iter, data_index, stop>>
         ELSE /\ data_index' = data_iter
              /\ data_iter' = data_iter + 1
              /\ IF stop = "sent"
                   THEN /\ stop' = "taken"
                        /\ dpc' = AfterStopSeen
                   ELSE /\ dpc' = IF mode # "synthetic" THEN "gate" ELSE "inflate"
                        /\ UNCHANGED stop
    /\ UNCHANGED <<mode, api, timestamps, scale_factor, now, wake, timestamp, task,
                   spawned, tx, wpc, whandle, RETURNCODE, handle, response, rpc,
                   output, spc>>

\* replay, debug: if next_timestamp > curr_timestamp + 1 { sleep(next - curr) }
D_Gate ==
    /\ Alive
    /\ UNCHANGED outsideRun
    /\ UNCHANGED history
    /\ dpc = "gate"
    /\ IF SendAt(data_index) > now + 1
         THEN /\ wake' = now + (SendAt(data_index) - now)
              /\ dpc' = "sleep"
         ELSE /\ dpc' = "inflate"
              /\ UNCHANGED wake
    /\ UNCHANGED <<mode, api, timestamps, scale_factor, now, data_iter, data_index,
                   timestamp, stop, task, spawned, tx, wpc, whandle, RETURNCODE,
                   handle, response, rpc, output, spc>>

\* the sleep returns, at its deadline or later
D_Wake ==
    /\ Alive
    /\ UNCHANGED outsideRun
    /\ UNCHANGED history
    /\ dpc = "sleep"
    /\ now >= wake
    /\ dpc' = IF mode # "synthetic" THEN "inflate" ELSE "iter"
    /\ UNCHANGED <<mode, api, timestamps, scale_factor, now, data_iter, data_index, wake,
                   timestamp, stop, task, spawned, tx, wpc, whandle, RETURNCODE,
                   handle, response, rpc, output, spc>>

Unspawned == {i \in Indices : task[i] = "unspawned"}

\* faulty variant: the dispatcher serves the pending entry with the earliest send time
SpawnIndex_EarliestFirst ==
    CHOOSE i \in Unspawned : \A j \in Unspawned : timestamps[i] <= timestamps[j]

\* the entry whose request task the iteration spawns: the loop variable
SpawnIndex == data_index

\* dataset.inflate(data_index, ..); let request_handle = spawn(async move {..});
D_Spawn ==
    /\ Alive
    /\ UNCHANGED outsideRun
    /\ dpc = "inflate"
    /\ task' = [task EXCEPT ![SpawnIndex] = "running"]
    /\ spawned' = Append(spawned, SpawnIndex)
    /\ history' = IF mode = "synthetic"
                    THEN [history EXCEPT !.scheduled = Append(@, timestamp)]
                    ELSE history
    /\ dpc' = "push"
    /\ UNCHANGED <<mode, api, timestamps, scale_factor, now, data_iter, data_index, wake,
                   timestamp, stop, tx, wpc, whandle, RETURNCODE, handle, response,
                   rpc, output, spc>>

\* faulty variant: the wait set is a bounded channel of capacity 1
WaitSetHasRoom_Bounded == Len(tx) < 1

\* let (tx, rx) = flume::unbounded(): a send never waits for room
WaitSetHasRoom == TRUE

\* the receiver of the wait set is dropped when the handle task has panicked
WaitSetReceiverAlive == wpc # "panicked"

\* faulty variant: the running timestamp restarts from the current time
NextSendAt_Reset(t, interval) == now + interval

\* timestamp += interval_generator.interval_in_millis().round() as u64;
NextSendAt(t, interval) == t + interval

\* tx.send_async(request_handle).await.unwrap() on the unbounded wait set: with
\* the receiver gone the unwrap panics and ends the dispatcher task; otherwise
\* the synthetic loop advances `timestamp` by one interval and sleeps or yields
D_Push ==
    /\ Alive
    /\ UNCHANGED outsideRun
    /\ dpc = "push"
    /\ WaitSetHasRoom
    /\ IF ~WaitSetReceiverAlive
         THEN /\ dpc' = "done"
              /\ UNCHANGED <<tx, timestamp, wake, history>>
         ELSE /\ tx' = Append(tx, spawned[Len(spawned)])
              /\ IF mode # "synthetic"
                   THEN /\ dpc' = "iter"
                        /\ UNCHANGED <<timestamp, wake, history>>
                   ELSE \E interval \in Intervals :
                          /\ timestamp' = NextSendAt(timestamp, interval)
                          /\ history' = [history EXCEPT !.intervals = Append(@, interval)]
                          /\ IF timestamp' > now + 1
                               THEN /\ wake' = now + (timestamp' - now)
                                    /\ dpc' = "sleep"
                               ELSE /\ dpc' = "iter"
                                    /\ UNCHANGED wake
    /\ UNCHANGED <<mode, api, timestamps, scale_factor, now, data_iter, data_index, stop,
                   task, spawned, wpc, whandle, RETURNCODE, handle, response, rpc,
                   output, spc>>

Dispatcher == D_Start \/ D_Head \/ D_Gate \/ D_Wake \/ D_Spawn \/ D_Push

(* ------------- protocol adapters (src/apis, src/protocols) ------------- *)
\* the metrics keys parse_response fills from the x-* headers of a response with
\* success status, in the order it reads them
HeaderKeys(a) ==
    CASE a = "Distserve" ->
           <<"first_token_time", "total_time", "inference_time", "queue_time",
             "max_time_between_tokens", "p70_time_between_tokens",
             "p90_time_between_tokens", "p99_time_between_tokens",
             "output_length", "input_length">>
      [] a = "TGI" ->
           <<"first_token_time", "total_time", "inference_time", "queue_time",
             "max_time_between_tokens">>
      [] OTHER -> << >>

\* a header of a response: present and visible ASCII, missing, or not decodable
HeaderStates == {"ok", "absent", "undecodable"}

\* headers().get(name).unwrap().to_str().unwrap() returns a value
HeaderReads(h) == h = "ok"

\* what a server may answer: an HTTP error status, or a success status whose
\* expected headers are all fine or of which one is missing or not decodable
Responses(a) ==
    LET N == Len(HeaderKeys(a))
        AllOk == [k \in 1..N |-> "ok"]
    IN  {[status |-> "error", headers |-> [k \in 1..N |-> "absent"]]}
        \cup {[status |-> "success", headers |-> AllOk]}
        \cup {[status |-> "success", headers |-> [AllOk EXCEPT ![b] = h]] :
                b \in 1..N, h \in HeaderStates \ {"ok"}}

\* A::parse_response(response): the keys of the map it returns, or a panic of the
\* calling task when an unwrap meets a missing or undecodable header
parse_response(a, r) ==
    IF a = "Mock"
      THEN [panic |-> FALSE, map |-> {"id"}]
      ELSE IF r.status = "success"
             THEN IF \A k \in DOMAIN r.headers : HeaderReads(r.headers[k])
                    THEN [panic |-> FALSE,
                          map |-> {"status"} \cup
                                  {HeaderKeys(a)[k] : k \in DOMAIN r.headers}]
                    ELSE [panic |-> TRUE, map |-> {}]
             ELSE [panic |-> FALSE, map |-> {"status"}]

\* what the request task can get from the adapter: the status of the response it
\* received with the result of parse_response on it
Outcomes(a) ==
    {[status |-> r.status, metrics |-> parse_response(a, r)] : r \in Responses(a)}

\* the keys the request task inserts into the map parse_response returned
InsertedKeys(m) ==
    IF m = "replay"
      THEN {"s_time", "e_time", "input_length", "output_length", "client_id"}
      ELSE {"s_time", "e_time", "input_length", "output_length"}

\* the keys of the map the debug request task builds
DebugKeys == {"chat_id", "input_length", "output_length", "s_time", "s_time_drift"}

(* ------------------- request tasks (src/requester.rs) ------------------ *)
\* if let Ok(response) = request_with_timeout(..).await {
\*     let mut metrics = A::parse_response(response); metrics.insert(..);
\*     response_sender.send(metrics).unwrap(); }
\* reqwest yields Ok(response) for every HTTP status
T_Respond(i) ==
    /\ Alive
    /\ UNCHANGED outsideRun
    /\ UNCHANGED history
    /\ mode # "debug"
    /\ task[i] = "running"
    /\ \E o \in Outcomes(api) :
         IF o.metrics.panic
           THEN /\ task' = [task EXCEPT ![i] = "panicked"]
                /\ UNCHANGED response
           ELSE /\ task' = [task EXCEPT ![i] =
                               IF o.status = "success" THEN "responded"
                                                       ELSE "rejected"]
                /\ response' = Append(response,
                                 [index |-> i,
                                  keys |-> o.metrics.map \cup InsertedKeys(mode)])
    /\ UNCHANGED <<mode, api, timestamps, scale_factor, now, data_iter, dpc, data_index,
                   wake, timestamp, stop, spawned, tx, wpc, whandle, RETURNCODE,
                   handle, rpc, output, spc>>

\* the else branch: replay stores -1 into RETURNCODE, synthetic only logs
ReturnCodeOnFailure(m, rc) == IF m = "replay" THEN -1 ELSE rc

\* request_with_timeout returned Err: timeout or transport failure
T_Fail(i) ==
    /\ Alive
    /\ UNCHANGED outsideRun
    /\ UNCHANGED history
    /\ mode # "debug"
    /\ task[i] = "running"
    /\ task' = [task EXCEPT ![i] = "failed"]
    /\ RETURNCODE' = ReturnCodeOnFailure(mode, RETURNCODE)
    /\ UNCHANGED <<mode, api, timestamps, scale_factor, now, data_iter, dpc, data_index,
                   wake, timestamp, stop, spawned, tx, wpc, whandle, handle,
                   response, rpc, output, spc>>

\* the debug request task: no HTTP call; it validates the prompt length, logs a
\* mismatch and sends its map
T_Debug(i) ==
    /\ Alive
    /\ UNCHANGED outsideRun
    /\ UNCHANGED history
    /\ mode = "debug"
    /\ task[i] = "running"
    /\ task' = [task EXCEPT ![i] = "responded"]
    /\ response' = Append(response, [index |-> i, keys |-> DebugKeys])
    /\ UNCHANGED <<mode, api, timestamps, scale_factor, now, data_iter, dpc, data_index,
                   wake, timestamp, stop, spawned, tx, wpc, whandle, RETURNCODE,
                   handle, rpc, output, spc>>

\* the request task returned
Finished(i) == task[i] \in {"responded", "rejected", "failed"}

\* while let Ok(handle) = response_receiver.recv_async().await {
W_Recv ==
    /\ Alive
    /\ UNCHANGED outsideRun
    /\ UNCHANGED history
    /\ wpc = "recv"
    /\ tx # <<>>
    /\ whandle' = Head(tx)
    /\ tx' = Tail(tx)
    /\ wpc' = "await"
    /\ UNCHANGED <<mode, api, timestamps, scale_factor, now, data_iter, dpc, data_index,
                   wake, timestamp, stop, task, spawned, RETURNCODE, handle,
                   response, rpc, output, spc>>

\* handle.await.unwrap(): a request task that panicked yields a JoinError, the
\* unwrap panics inside the handle task and the wait set's receiver is dropped
W_Join ==
    /\ Alive
    /\ UNCHANGED outsideRun
    /\ UNCHANGED history
    /\ wpc = "await"
    /\ \/ /\ Finished(whandle)
          /\ wpc' = "recv"
          /\ UNCHANGED handle
       \/ /\ task[whandle] = "panicked"
          /\ wpc' = "panicked"
          /\ handle' = "Panic"
    /\ UNCHANGED <<mode, api, timestamps, scale_factor, now, data_iter, dpc, data_index,
                   wake, timestamp, stop, task, spawned, tx, whandle, RETURNCODE,
                   response, rpc, output, spc>>

\* recv_async() yields Err only when the wait set is empty and its sender, owned
\* by the dispatcher task, is dropped
WaitSetClosed == dpc = "done"

\* synthetic: Ok(()); replay, debug: RETURNCODE.load() == 0 ? Ok(()) : Err(a)
HandleResult ==
    IF mode # "synthetic"
      THEN (IF RETURNCODE = 0 THEN "Ok" ELSE "Err")
      ELSE "Ok"

\* wait_all(rx) returned; the handle task finishes with its result
W_Closed ==
    /\ Alive
    /\ UNCHANGED outsideRun
    /\ UNCHANGED history
    /\ wpc = "recv"
    /\ tx = <<>>
    /\ WaitSetClosed
    /\ wpc' = "done"
    /\ handle' = HandleResult
    /\ UNCHANGED <<mode, api, timestamps, scale_factor, now, data_iter, dpc, data_index,
                   wake, timestamp, stop, task, spawned, tx, whandle, RETURNCODE,
                   response, rpc, output, spc>>

(* --------------------- reporter (src/requester.rs) --------------------- *)
\* faulty variant: the request tasks' clones are not counted
SendersAlive_DispatcherOnly == dpc # "done"

\* response_sender is owned by the dispatcher task, a clone by each request task
SendersAlive == dpc # "done" \/ \E i \in Indices : task[i] = "running"

\* while let Ok(metrics) = recv_async().await { write_all; write_all; flush }
R_Write ==
    /\ Alive
    /\ UNCHANGED outsideRun
    /\ UNCHANGED history
    /\ rpc = "recv"
    /\ response # <<>>
    /\ output' = Append(output, Head(response))
    /\ response' = Tail(response)
    /\ UNCHANGED <<mode, api, timestamps, scale_factor, now, data_iter, dpc, data_index,
                   wake, timestamp, stop, task, spawned, tx, wpc, whandle,
                   RETURNCODE, handle, rpc, spc>>

\* recv_async() yields Err: channel drained and every sender dropped
R_Exit ==
    /\ Alive
    /\ UNCHANGED outsideRun
    /\ UNCHANGED history
    /\ rpc = "recv"
    /\ response = <<>>
    /\ ~SendersAlive
    /\ rpc' = "done"
    /\ UNCHANGED <<mode, api, timestamps, scale_factor, now, data_iter, dpc, data_index,
                   wake, timestamp, stop, task, spawned, tx, wpc, whandle,
                   RETURNCODE, handle, response, output, spc>>

(* ----------------------- supervisor (src/client.rs) -------------------- *)
\* the stop receiver lives in the dispatcher task and is dropped with it
StopReceiverAlive == dpc # "done"

\* sleep(time_in_secs).await; stop_tx.send(()).unwrap();
S_Stop ==
    /\ Alive
    /\ UNCHANGED outsideRun
    /\ spc = "sleep"
    /\ now >= RunTime
    /\ IF StopReceiverAlive
         THEN /\ stop' = "sent"
              /\ spc' = "join_requester"
              /\ history' = [history EXCEPT !.spawned_at_stop = Len(spawned)]
         ELSE /\ spc' = "panicked"
              /\ UNCHANGED <<stop, history>>
    /\ UNCHANGED <<mode, api, timestamps, scale_factor, now, data_iter, dpc, data_index,
                   wake, timestamp, task, spawned, tx, wpc, whandle, RETURNCODE,
                   handle, response, rpc, output>>

\* requester_handle.await.unwrap(): a JoinError of the handle task panics here
S_JoinRequester ==
    /\ Alive
    /\ UNCHANGED outsideRun
    /\ UNCHANGED history
    /\ spc = "join_requester"
    /\ handle # "pending"
    /\ spc' = IF handle = "Panic" THEN "panicked" ELSE "join_reporter"
    /\ UNCHANGED <<mode, api, timestamps, scale_factor, now, data_iter, dpc, data_index,
                   wake, timestamp, stop, task, spawned, tx, wpc, whandle,
                   RETURNCODE, handle, response, rpc, output>>

\* reporter_handle.await.unwrap();
S_JoinReporter ==
    /\ Alive
    /\ UNCHANGED outsideRun
    /\ UNCHANGED history
    /\ spc = "join_reporter"
    /\ rpc = "done"
    /\ spc' = "done"
    /\ UNCHANGED <<mode, api, timestamps, scale_factor, now, data_iter, dpc, data_index,
                   wake, timestamp, stop, task, spawned, tx, wpc, whandle,
                   RETURNCODE, handle, response, rpc, output>>

\* one millisecond passes; past MaxTime only while a sleeper still needs it
Tick ==
    /\ Alive
    /\ UNCHANGED outsideRun
    /\ UNCHANGED history
    /\ spc # "done"
    /\ \/ now < MaxTime
       \/ dpc = "sleep" /\ now < wake
       \/ spc = "sleep" /\ now < RunTime
    /\ now' = now + 1
    /\ UNCHANGED <<mode, api, timestamps, scale_factor, data_iter, dpc, data_index, wake,
                   timestamp, stop, task, spawned, tx, wpc, whandle, RETURNCODE,
                   handle, response, rpc, output, spc>>

Next ==
    \/ D_Start
    \/ D_Head
    \/ D_Gate
    \/ D_Wake
    \/ D_Spawn
    \/ D_Push
    \/ \E i \in Indices : T_Respond(i)
    \/ \E i \in Indices : T_Fail(i)
    \/ \E i \in Indices : T_Debug(i)
    \/ W_Recv
    \/ W_Join
    \/ W_Closed
    \/ R_Write
    \/ R_Exit
    \/ S_Stop
    \/ S_JoinRequester
    \/ S_JoinReporter
    \/ Tick

Spec == Init /\ [][Next]_vars

\* the executor keeps running every task that can run, every HTTP call returns
\* or times out, and time passes
Fairness ==
    /\ WF_vars(Dispatcher)
    /\ \A i \in Indices : WF_vars(T_Respond(i) \/ T_Fail(i) \/ T_Debug(i))
    /\ WF_vars(W_Recv \/ W_Join \/ W_Closed)
    /\ WF_vars(R_Write \/ R_Exit)
    /\ WF_vars(S_Stop \/ S_JoinRequester \/ S_JoinReporter)
    /\ WF_vars(Tick)

FairSpec == Init /\ [][Next]_vars /\ Fairness

ApiSpec == ApiInit /\ [][Next]_vars

LockNext == \E t \in Threads : LockStep(t)

LockSpec == LockInit /\ [][LockNext]_vars

\* every step of a thread that is inside a lock call or holds a lock; a thread
\* is never obliged to call read_lock or write_lock again
LockProgress(t) ==
    \/ read_lock_load(t)
    \/ read_lock_cas_ok(t)
    \/ read_lock_cas_fail(t)
    \/ read_unlock(t)
    \/ write_lock_mark_load(t)
    \/ write_lock_mark_ok(t)
    \/ write_lock_mark_fail(t)
    \/ write_lock_acq_load(t)
    \/ write_lock_acq_ok(t)
    \/ write_lock_acq_fail(t)
    \/ write_unlock(t)

\* fair scheduling: every spinning thread keeps running, every holder unlocks,
\* and a CAS that could succeed again and again does succeed
LockFairness ==
    \A t \in Threads :
        /\ WF_lockVars(LockProgress(t))
        /\ SF_lockVars(read_lock_cas_ok(t))
        /\ SF_lockVars(write_lock_mark_ok(t))
        /\ SF_lockVars(write_lock_acq_ok(t))

LockFairSpec == LockInit /\ [][LockNext]_vars /\ LockFairness

(* -------------------------- SpinRwLock claims -------------------------- *)
Writers == {t \in Threads : pc[t] = "writing"}

Readers == {t \in Threads : pc[t] = "reading"}

\* threads that left the first loop of write_lock and do not hold the lock yet
AdmittedWaiters == {t \in Threads : pc[t] \in {"w_acq_load", "w_acq_cas"}}

InWriteLock == {t \in Threads :
                   pc[t] \in {"w_mark_load", "w_mark_cas", "w_acq_load", "w_acq_cas"}}

\* C1: at most one thread holds the write lock, and no thread holds the read
\* lock while another holds the write lock.
C1_MutualExclusion ==
    /\ Cardinality(Writers) <= 1
    /\ (Writers # {} => Readers = {})

\* a writer holds the lock while a reader's CAS and another writer's CAS are pending
C1_Witness ==
    /\ Writers # {}
    /\ \E r \in Threads : pc[r] = "r_cas"
    /\ \E w \in Threads : pc[w] = "w_acq_cas"

\* C2: every thread that calls write_lock eventually acquires the write lock.
C2_WriterEventuallyAcquires ==
    \A t \in Threads : (t \in InWriteLock) ~> (pc[t] = "writing")

\* C3: the reader count is never incremented from a word that has the
\* writer-active or the writer-waiting bit set.
C3_NoReadAdmissionUnderWriterBits ==
    [][state'.readers > state.readers => ~HasWriterBits(state)]_lockVars

\* a reader passed the guard of read_lock and a writer bit was set before its CAS
C3_Witness ==
    \E r \in Threads : pc[r] = "r_cas" /\ ~HasWriterBits(s[r]) /\ HasWriterBits(state)

\* C4: at most one thread has finished the first phase of write_lock without
\* holding the write lock yet.
C4_AtMostOneAdmittedWaiter == Cardinality(AdmittedWaiters) <= 1

(* ------------------- dispatcher / shutdown claims --------------------- *)
\* C5: request tasks are spawned in trace order: index i before every j > i,
\* whatever the trace timestamps are.
C5_DispatchInTraceOrder ==
    \A a, b \in DOMAIN spawned : a < b => spawned[a] < spawned[b]

\* two entries were dispatched although the earlier one has the later send time
C5_Witness ==
    /\ mode = "replay"
    /\ Len(spawned) >= 2
    /\ SendAt(spawned[1]) > SendAt(spawned[2])

\* the dispatcher is not inside a sleep whose deadline is still ahead
DispatcherReady ==
    \/ dpc \in {"start", "iter", "gate", "inflate", "push"}
    \/ dpc = "sleep" /\ now >= wake

C7_NoSpawnAfterStop == [][stop # "empty" => spawned' = spawned]_vars

\* C7 (amended): once the dispatcher has polled the stop signal and received
\* it, no further request task is spawned.
C7_NoSpawnAfterStopSeen == [][stop = "taken" => spawned' = spawned]_vars

\* the dispatcher left its loop on the stop signal with entries undispatched
C7_Witness ==
    /\ stop = "taken"
    /\ dpc = "done"
    /\ Len(spawned) >= 1
    /\ Len(spawned) < TraceLen

\* the request task has ended, by returning or by a panic
Terminated(i) == Finished(i) \/ task[i] = "panicked"

\* C8: the join handle resolves only after the dispatcher loop has exited and
\* every spawned request task has run to completion.
C8_JoinAfterAllTasks ==
    handle # "pending" =>
        /\ dpc = "done"
        /\ \A k \in DOMAIN spawned : Terminated(spawned[k])

\* C9: shutdown always completes: the supervisor's joins of dispatcher and
\* reporter both return.
C9_ShutdownCompletes == <>(spc = "done")

\* C10: the join handle yields Ok if and only if no dispatched request failed
\* or timed out.
C10_OkIffNoFailure ==
    handle # "pending" => (handle = "Ok" <=> \A i \in Indices : task[i] # "failed")

(* ------------------- request task and adapter claims ------------------ *)
\* every record sent so far: those the reporter wrote, then those in the channel
Sent == output \o response

RecordsOf(i) == Cardinality({k \in DOMAIN Sent : Sent[k].index = i})

\* C11: a request whose POST returned a response has sent exactly one metrics
\* record, and a request whose POST timed out or failed in transport has sent none.
C11_OneRecordPerResponse ==
    \A i \in Indices :
        /\ task[i] \in {"responded", "rejected", "panicked"} => RecordsOf(i) = 1
        /\ task[i] = "failed" => RecordsOf(i) = 0

\* C12: a request answered with an HTTP error status makes the run-level return
\* code non-zero.
C12_HttpErrorSetsReturnCode ==
    (\E i \in Indices : task[i] = "rejected") => RETURNCODE # 0

\* C13: a success response with a missing or undecodable header aborts neither
\* the request task nor the handle task that joins it.
C13_MissingHeaderNeverAborts ==
    /\ \A i \in Indices : task[i] # "panicked"
    /\ handle # "Panic"

MandatoryKeys == {"s_time", "e_time", "input_length", "output_length", "status"}

\* C20: every metrics record sent to the reporter, by any dispatcher variant and
\* any adapter, has the keys s_time, e_time, input_length, output_length, status.
C20_MandatoryKeys ==
    \A k \in DOMAIN Sent : MandatoryKeys \subseteq Sent[k].keys

\* warm-up: tx.send(generate_block(i)) into the bounded pool of size i, which
\* waits while the pool is full; after the last send of a size the pool is
\* inserted into ragged_block_sender and ragged_block_cache
N_Warm ==
    /\ UNCHANGED outsideSampler
    /\ UNCHANGED receiver_guard
    /\ ~constructed
    /\ warm.i \in RaggedSizes(block_size)
    /\ Len(warm.pool) < channel_capacity
    /\ \E prompt \in Blocks[tokenizer][warm.i] :
         IF Len(warm.pool) + 1 = WarmupSends
           THEN /\ ragged' = Append(ragged, Append(warm.pool, prompt))
                /\ warm' = [i |-> warm.i + 1, pool |-> << >>]
           ELSE /\ warm' = [warm EXCEPT !.pool = Append(@, prompt)]
                /\ UNCHANGED ragged
    /\ UNCHANGED <<tokenizer, block_size, channel_capacity, primary, notify,
                   constructed, producer, consumer, poisoned,
                   connected>>

\* TokenSampler::new returns Self { .. }
N_Return ==
    /\ UNCHANGED outsideSampler
    /\ UNCHANGED receiver_guard
    /\ ~constructed
    /\ warm.i \notin RaggedSizes(block_size)
    /\ constructed' = TRUE
    /\ UNCHANGED <<tokenizer, block_size, channel_capacity, primary, ragged, notify,
                   warm, producer, consumer, poisoned, connected>>

\* faulty variant: a producer never sees a channel as disconnected
Disconnected_Unseen == FALSE

\* TrySendError::Disconnected on tx, RecvTimeoutError::Disconnected on notify_rx:
\* the receiver of the primary queue and notify_tx went with the TokenSampler
Disconnected == ~connected

\* faulty variant: the block that found the queue full is thrown away
Retained_Discarded(sample) == << >>

\* Err(TrySendError::Full(x)) => local_sample.push(x)
Retained(sample) == <<sample>>

\* faulty variant: a pool takes a block whatever it holds
PoolHasRoom_Unbounded(size) == size \in DOMAIN ragged

\* sender.try_send(ragged_sample) on the bounded pool of that size succeeds
PoolHasRoom(size) == size \in DOMAIN ragged /\ Len(ragged[size]) < channel_capacity

\* producer_loop: take the retained sample or generate one; tx.try_send(sample):
\* Ok -> continue, Full(x) -> local_sample.push(x) and listen for a notification,
\* Disconnected -> break
P_Offer(p) ==
    /\ UNCHANGED outsideSampler
    /\ UNCHANGED receiver_guard
    /\ producer[p].pc = "offer"
    /\ \E sample \in (IF producer[p].local_sample = << >>
                        THEN Blocks[tokenizer][block_size]
                        ELSE {producer[p].local_sample[1]}) :
         IF Disconnected
           THEN /\ producer' = [producer EXCEPT ![p] =
                                   [pc |-> "exited", local_sample |-> << >>]]
                /\ UNCHANGED primary
           ELSE IF Len(primary) < channel_capacity
                  THEN /\ primary' = Append(primary, sample)
                       /\ producer' = [producer EXCEPT ![p].local_sample = << >>]
                  ELSE /\ producer' = [producer EXCEPT ![p] =
                                          [pc |-> "listen", local_sample |-> Retained(sample)]]
                       /\ UNCHANGED primary
    /\ UNCHANGED <<tokenizer, block_size, channel_capacity, ragged, notify, warm,
                   constructed, consumer, poisoned, connected>>

\* notify_rx.recv_timeout(5 ms): Ok(size) -> generate a block of that size and
\* sender.try_send it (dropped when the pool is full or absent); Timeout -> continue;
\* Disconnected, once the channel is empty and notify_tx dropped -> break
P_Listen(p) ==
    /\ UNCHANGED outsideSampler
    /\ UNCHANGED receiver_guard
    /\ producer[p].pc = "listen"
    /\ producer' = [producer EXCEPT ![p].pc =
                       IF notify = << >> /\ Disconnected THEN "exited" ELSE "offer"]
    /\ IF notify = << >>
         THEN UNCHANGED <<notify, ragged>>
         ELSE /\ notify' = Tail(notify)
              /\ LET size == Head(notify)
                 IN  \E ragged_sample \in Blocks[tokenizer][size] :
                       IF PoolHasRoom(size)
                         THEN ragged' = [ragged EXCEPT ![size] = Append(@, ragged_sample)]
                         ELSE UNCHANGED ragged
    /\ UNCHANGED <<tokenizer, block_size, channel_capacity, primary, warm,
                   constructed, consumer, poisoned, connected>>

\* the gen_string calls made so far
CallsMade ==
    LET RECURSIVE upto(_)
        upto(k) == IF k = 0 THEN 0 ELSE consumer[k].calls + upto(k - 1)
    IN  upto(NumConsumers)

\* a consumer calls gen_string(n) on the constructed sampler
G_Call(c) ==
    /\ UNCHANGED outsideSampler
    /\ UNCHANGED receiver_guard
    /\ constructed
    /\ connected
    /\ consumer[c].pc = "idle"
    /\ CallsMade < MaxCalls
    /\ \E n \in 0..block_size :
         consumer' = [consumer EXCEPT ![c] =
                        [pc |-> IF block_size = n THEN "recv" ELSE "ragged",
                         n |-> n, ret |-> << >>, calls |-> @.calls + 1]]
    /\ UNCHANGED <<tokenizer, block_size, channel_capacity, primary, ragged, notify,
                   warm, constructed, producer, poisoned, connected>>

\* self.receiver.lock().unwrap(): the caller waits until the guard is free
G_Lock(c) ==
    /\ UNCHANGED outsideSampler
    /\ consumer[c].pc = "recv"
    /\ receiver_guard = 0
    /\ receiver_guard' = c
    /\ consumer' = [consumer EXCEPT ![c].pc = "locked"]
    /\ UNCHANGED <<tokenizer, block_size, channel_capacity, primary, ragged, notify,
                   warm, constructed, producer, poisoned, connected>>

\* faulty variant: the guard of the receiver mutex outlives the call
G_Recv_GuardKept(c) ==
    /\ UNCHANGED outsideSampler
    /\ consumer[c].pc = "locked"
    /\ primary # << >>
    /\ consumer' = [consumer EXCEPT ![c].pc = "returned", ![c].ret = Head(primary)]
    /\ primary' = Tail(primary)
    /\ UNCHANGED <<tokenizer, block_size, channel_capacity, ragged, notify, warm,
                   constructed, producer, poisoned, connected, receiver_guard>>

\* if let Ok(sample) = self.receiver.lock().unwrap().recv() { return sample; }
\* the senders live in the producer threads, so recv waits for a block while
\* the caller holds the guard, which is dropped when the call returns
G_Recv(c) ==
    /\ UNCHANGED outsideSampler
    /\ consumer[c].pc = "locked"
    /\ receiver_guard = c
    /\ primary # << >>
    /\ consumer' = [consumer EXCEPT ![c].pc = "returned", ![c].ret = Head(primary)]
    /\ primary' = Tail(primary)
    /\ receiver_guard' = 0
    /\ UNCHANGED <<tokenizer, block_size, channel_capacity, ragged, notify, warm,
                   constructed, producer, poisoned, connected>>

\* the sizes ragged_block_cache has a pool for
HasPool(n) == n \in DOMAIN ragged

\* if let Some(rx) = self.ragged_block_cache.lock().unwrap().get(&n) {
\*     try_recv hit: notify, return the sample; miss: notify, generate inline
\* } else { panic!("No cache for block size {n}") }
\* whether the guard is still held in the else branch depends on the edition
\* the crate is built with: when it is, the panic poisons the mutex and every
\* later lock().unwrap() panics
G_Ragged(c) ==
    /\ UNCHANGED outsideSampler
    /\ UNCHANGED receiver_guard
    /\ consumer[c].pc = "ragged"
    /\ IF poisoned \/ ~HasPool(consumer[c].n)
         THEN /\ consumer' = [consumer EXCEPT ![c].pc = "panicked"]
              /\ \E held \in BOOLEAN : poisoned' = (poisoned \/ held)
              /\ UNCHANGED <<ragged, notify>>
         ELSE /\ notify' = Append(notify, consumer[c].n)
              /\ UNCHANGED poisoned
              /\ IF ragged[consumer[c].n] # << >>
                   THEN /\ consumer' = [consumer EXCEPT ![c].pc = "returned",
                                           ![c].ret = Head(ragged[consumer[c].n])]
                        /\ ragged' = [ragged EXCEPT ![consumer[c].n] = Tail(@)]
                   ELSE /\ \E sample \in Blocks[tokenizer][consumer[c].n] :
                             consumer' = [consumer EXCEPT ![c].pc = "returned",
                                                          ![c].ret = sample]
                        /\ UNCHANGED ragged
    /\ UNCHANGED <<tokenizer, block_size, channel_capacity, primary, warm,
                   constructed, producer, connected>>

\* the caller takes the returned block and may call again
G_Done(c) ==
    /\ UNCHANGED outsideSampler
    /\ UNCHANGED receiver_guard
    /\ consumer[c].pc = "returned"
    /\ consumer' = [consumer EXCEPT ![c].pc = "idle", ![c].n = 0, ![c].ret = << >>]
    /\ UNCHANGED <<tokenizer, block_size, channel_capacity, primary, ragged, notify,
                   warm, constructed, producer, poisoned, connected>>

\* the last holder drops the TokenSampler, no call of gen_string being in
\* progress: the receiver of the primary queue and notify_tx are dropped
N_Drop ==
    /\ UNCHANGED outsideSampler
    /\ UNCHANGED receiver_guard
    /\ constructed
    /\ connected
    /\ \A c \in Consumers : consumer[c].pc \in {"idle", "panicked"}
    /\ connected' = FALSE
    /\ UNCHANGED <<tokenizer, block_size, channel_capacity, primary, ragged, notify,
                   warm, constructed, producer, consumer, poisoned>>

SamplerNext ==
    \/ N_Warm
    \/ N_Return
    \/ N_Drop
    \/ \E p \in Producers : P_Offer(p)
    \/ \E p \in Producers : P_Listen(p)
    \/ \E c \in Consumers : G_Call(c)
    \/ \E c \in Consumers : G_Lock(c)
    \/ \E c \in Consumers : G_Recv(c)
    \/ \E c \in Consumers : G_Ragged(c)
    \/ \E c \in Consumers : G_Done(c)

\* TokenSampler::new(tokenizer, config, num_producers, channel_capacity, block_size)
SamplerInit ==
    /\ FreshRun("replay", "Distserve", DueAtOnce, 1)
    /\ Rest({"sampler"})
    /\ \E tk \in Tokenizers, b \in 1..BlockSize, cap \in 1..MaxCapacity :
         SamplerFresh(tk, b, cap)

SamplerSpec == SamplerInit /\ [][SamplerNext]_vars

\* the producers are OS threads and the consumers are threads or tasks of the
\* caller: each of them keeps being scheduled
SamplerFairSpec ==
    /\ SamplerSpec
    /\ \A p \in Producers : WF_vars(P_Offer(p) \/ P_Listen(p))
    /\ \A c \in Consumers : WF_vars(G_Lock(c) \/ G_Recv(c))

(* -------- Dataset::next_request (src/dataset.rs), the shared cursor ------ *)
fetch_add_Stuck(n) == n

\* self.next.fetch_add(1, Ordering::Relaxed): the value stored
fetch_add(n) == n + 1

\* let index = next_index % self.dataset_size;
IndexOf(next_index) == next_index % dataset_size

\* let round = next_index / self.dataset_size;
RoundOf(next_index) == next_index \div dataset_size

\* a caller enters next_request / next_request_with_timestamp: the atomic
\* fetch_add hands it the cursor value and advances the cursor
I_Fetch(c) ==
    /\ UNCHANGED outsideIter
    /\ caller[c].pc = "idle"
    /\ next < MaxFetches
    /\ caller' = [caller EXCEPT ![c].pc = "fetched", ![c].next_index = next]
    /\ next' = fetch_add(next)
    /\ UNCHANGED dataset_size

\* the caller returns the request at index next_index % dataset_size, of round
\* next_index / dataset_size; there is no branch that returns nothing
I_Return(c) ==
    /\ UNCHANGED outsideIter
    /\ caller[c].pc = "fetched"
    /\ caller' = [caller EXCEPT ![c].pc = "idle",
                     ![c].got = Append(@, [next_index |-> caller[c].next_index,
                                           index |-> IndexOf(caller[c].next_index),
                                           round |-> RoundOf(caller[c].next_index)])]
    /\ UNCHANGED <<next, dataset_size>>

IterNext ==
    \/ \E c \in Callers : I_Fetch(c)
    \/ \E c \in Callers : I_Return(c)

\* a loaded dataset of any size shared by the callers
IterInit ==
    /\ FreshRun("replay", "Distserve", DueAtOnce, 1)
    /\ Rest({"iter"})
    /\ \E n \in 1..MaxDatasetSize : IterFresh(n)

IterSpec == IterInit /\ [][IterNext]_vars

(* --------- LLMTrace::inflate and the chunk cache (spec, section 4.4) ----- *)
(* The sampler is seen through its contract with the inflater: a draw of   *)
(* size n >= 1 is any block generate_block(n) can return, and a draw of    *)
(* size 0 is the panic of gen_string(0). A critical section under the      *)
(* chunk-cache rwlock is one step.                                         *)

\* L - (|H| - 1) * B: the length of the block the last hash covers
Residual(e) == e.input_length - (Len(e.chunk_hashes) - 1) * block_size

\* the text of a prompt buffer: the appended blocks, concatenated
RECURSIVE PromptText(_)
PromptText(buf) ==
    IF buf = << >> THEN << >> ELSE Head(buf).text \o PromptText(Tail(buf))

\* tokenizer.encode(prompt).len()
PromptLength(buf) == Len(encode(PromptText(buf), tokenizer.vocab))

\* the hash the inflater is at
HashAt(w) == entries[w].chunk_hashes[inflater[w].k]

\* inflate(trace_index, sampler) is called for entry w
F_Call(w) ==
    /\ UNCHANGED outsideCache
    /\ inflater[w].pc = "idle"
    /\ inflater' = [inflater EXCEPT ![w].pc = IF Len(entries[w].chunk_hashes) = 1
                                               THEN "last" ELSE "lookup"]
    /\ UNCHANGED <<entries, CC, first_inserted>>

\* for a hash h other than the last: lookup CC[h] under the read lock; a hit
\* appends the mapped text, a miss goes on to generate a block
F_Lookup(w) ==
    /\ UNCHANGED outsideCache
    /\ inflater[w].pc = "lookup"
    /\ IF HashAt(w) \in DOMAIN CC
         THEN inflater' = [inflater EXCEPT
                  ![w].prompt = Append(@, [hash |-> HashAt(w), text |-> CC[HashAt(w)]]),
                  ![w].k = @ + 1,
                  ![w].pc = IF inflater[w].k + 1 = Len(entries[w].chunk_hashes)
                              THEN "last" ELSE "lookup"]
         ELSE inflater' = [inflater EXCEPT ![w].pc = "generate"]
    /\ UNCHANGED <<entries, CC, first_inserted>>

\* on miss: generate via sampler at size B
F_Generate(w) ==
    /\ UNCHANGED outsideCache
    /\ inflater[w].pc = "generate"
    /\ \E b \in Blocks[tokenizer][block_size] :
         inflater' = [inflater EXCEPT ![w].pc = "insert", ![w].block = b]
    /\ UNCHANGED <<entries, CC, first_inserted>>

\* insert with first-writer-wins semantics: re-check under the writer lock,
\* insert when still absent, and append the mapped text
F_Insert(w) ==
    /\ UNCHANGED outsideCache
    /\ inflater[w].pc = "insert"
    /\ CC' = InsertIfAbsent(CC, HashAt(w), inflater[w].block)
    /\ first_inserted' = InsertIfAbsent(first_inserted, HashAt(w), inflater[w].block)
    /\ inflater' = [inflater EXCEPT
           ![w].prompt = Append(@, [hash |-> HashAt(w), text |-> CC'[HashAt(w)]]),
           ![w].k = @ + 1,
           ![w].block = << >>,
           ![w].pc = IF inflater[w].k + 1 = Len(entries[w].chunk_hashes)
                       THEN "last" ELSE "lookup"]
    /\ UNCHANGED entries

\* generate a residual-length block via sampler, append
F_Last(w) ==
    /\ UNCHANGED outsideCache
    /\ inflater[w].pc = "last"
    /\ IF Residual(entries[w]) = 0
         THEN inflater' = [inflater EXCEPT ![w].pc = "panicked"]
         ELSE \E b \in Blocks[tokenizer][Residual(entries[w])] :
                inflater' = [inflater EXCEPT
                    ![w].pc = "last_insert",
                    ![w].block = b,
                    ![w].prompt = Append(@, [hash |-> HashAt(w), text |-> b])]
    /\ UNCHANGED <<entries, CC, first_inserted>>

\* insert under the writer lock at H.last(), overwriting; inflate returns
F_LastInsert(w) ==
    /\ UNCHANGED outsideCache
    /\ inflater[w].pc = "last_insert"
    /\ CC' = Overwrite(CC, HashAt(w), inflater[w].block)
    /\ first_inserted' = InsertIfAbsent(first_inserted, HashAt(w), inflater[w].block)
    /\ inflater' = [inflater EXCEPT ![w].pc = "returned", ![w].block = << >>]
    /\ UNCHANGED entries

InflateNext ==
    \/ \E w \in Inflaters : F_Call(w)
    \/ \E w \in Inflaters : F_Lookup(w)
    \/ \E w \in Inflaters : F_Generate(w)
    \/ \E w \in Inflaters : F_Insert(w)
    \/ \E w \in Inflaters : F_Last(w)
    \/ \E w \in Inflaters : F_LastInsert(w)

\* a trace of entries that satisfy the entry invariant for the block size of
\* the sampler, an empty chunk cache, and no inflate started
InflateInit ==
    /\ FreshRun("replay", "Distserve", DueAtOnce, 1)
    /\ Rest({"sampler", "cache"})
    /\ \E tk \in Tokenizers, b \in 1..BlockSize :
         /\ SamplerFresh(tk, b, 1)
         /\ \E es \in [Inflaters -> TraceEntries(b)] : CacheFresh(es)

InflateSpec == InflateInit /\ [][InflateNext]_vars

(* ------------------- claims on the chunk cache and inflate -------------- *)
\* the blocks a prompt buffer holds for chunk hash h
TextsOf(w, h) ==
    {inflater[w].prompt[k].text :
        k \in {j \in DOMAIN inflater[w].prompt : inflater[w].prompt[j].hash = h}}

\* C14: for any two trace entries that share a chunk hash h, the text
\* contributed by h is the same in both prompts
C14_SharedHashSameText ==
    \A w1 \in Inflaters, w2 \in Inflaters, h \in Hashes :
        w1 # w2 => \A t1 \in TextsOf(w1, h), t2 \in TextsOf(w2, h) : t1 = t2

\* C15: once a chunk hash has been inserted its mapped text never changes:
\* the cache maps every hash to the text of its first insertion
C15_FirstWriterWins ==
    \A h \in DOMAIN CC : CC[h] = first_inserted[h]

\* C16: every inflate call returns, and returns a prompt whose re-tokenized
\* length equals the entry's input_length
C16_PromptLength ==
    \A w \in Inflaters :
        /\ inflater[w].pc # "panicked"
        /\ inflater[w].pc = "returned" =>
              PromptLength(inflater[w].prompt) = entries[w].input_length

(* ----------------------- claims on the token sampler -------------------- *)
\* C17: for every n in 0..B a gen_string(n) call returns, and returns a string
\* that re-encodes to exactly n tokens
C17_BlockLength ==
    \A c \in Consumers :
        /\ consumer[c].pc # "panicked"
        /\ consumer[c].pc = "returned" =>
              Len(encode(consumer[c].ret, tokenizer.vocab)) = consumer[c].n

\* C18: a gen_string(0) call never panics, and what it returns is the empty
\* string
C18_GenStringZero ==
    \A c \in Consumers :
        (consumer[c].calls > 0 /\ consumer[c].n = 0) =>
            /\ consumer[c].pc # "panicked"
            /\ consumer[c].pc = "returned" => consumer[c].ret = << >>

(* ----------------------- claims on the trace cursor --------------------- *)
\* the requests handed out so far, each with the caller it was handed to
HandedOut == {x \in Callers \X (1..MaxFetches) : x[2] <= Len(caller[x[1]].got)}

Got(x) == caller[x[1]].got[x[2]]

request_timeout_Slo(output_length) ==
    IF (500 + 6 * output_length) \div 100 > 15
      THEN (500 + 6 * output_length) \div 100 ELSE 15

\* Duration::from_secs(180.max((output_length as f64 * 0.4) as u64)), in seconds
request_timeout(output_length) ==
    IF (output_length * 4) \div 10 > 180 THEN (output_length * 4) \div 10 ELSE 180

\* BTreeMap::insert(k, v): the value of k becomes v
insert(map, k, v) == [x \in DOMAIN map \cup {k} |-> IF x = k THEN v ELSE map[x]]

\* what the server answers to the call: a response of Responses(a), with the
\* lengths it counted itself, which may differ from the dispatcher's by one
Replies(a, c) ==
    [r : Responses(a),
     input_length : {c.input_length, c.input_length + 1},
     output_length : {c.output_length, c.output_length + 1}]

\* the map A::parse_response(response) returns, with the values it stores: the
\* status code, the server's x-input-length and x-output-length, an id or a
\* timing header
ParsedMap(a, reply) ==
    [k \in parse_response(a, reply.r).map |->
        CASE k = "status" -> IF reply.r.status = "success" THEN 200 ELSE 500
          [] k = "input_length" -> reply.input_length
          [] k = "output_length" -> reply.output_length
          [] OTHER -> 0]

\* metrics.insert("s_time", ..); .. ("e_time", ..); .. ("input_length", ..);
\* .. ("output_length", ..); and in the replay loop .. ("client_id", data_index)
InsertAll(map, m, c, s_time, e_time) ==
    LET m1 == insert(map, "s_time", s_time)
        m2 == insert(m1, "e_time", e_time)
        m3 == insert(m2, "input_length", c.input_length)
        m4 == insert(m3, "output_length", c.output_length)
    IN  IF m = "replay" THEN insert(m4, "client_id", c.data_index) ELSE m4

\* the map the debug request task builds; s_time.saturating_sub(next_timestamp)
DebugMap(c, s_time) ==
    LET m1 == insert(<< >>, "chat_id", c.data_index)
        m2 == insert(m1, "input_length", c.input_length)
        m3 == insert(m2, "output_length", c.output_length)
        m4 == insert(m3, "s_time", s_time)
    IN  insert(m4, "s_time_drift",
               IF s_time >= c.next_timestamp THEN s_time - c.next_timestamp ELSE 0)

\* the executor has not polled the spawned task yet and time passes
Q_Tick ==
    /\ UNCHANGED outsideRequest
    /\ rq.pc = "spawned"
    /\ clock < MaxStartDelay
    /\ clock' = clock + 1
    /\ UNCHANGED <<call, rq, emitted>>

\* the task runs: let s_time = get_timestamp(); and the POST is sent with its
\* timeout; the debug task sends its map at once
Q_Begin ==
    /\ UNCHANGED outsideRequest
    /\ rq.pc = "spawned"
    /\ IF call.mode = "debug"
         THEN /\ rq' = [rq EXCEPT !.pc = "sent", !.s_time = clock]
              /\ emitted' = Append(emitted, DebugMap(call, clock))
         ELSE /\ rq' = [rq EXCEPT !.pc = "posted", !.s_time = clock,
                                  !.timeout = request_timeout(call.output_length)]
              /\ UNCHANGED emitted
    /\ UNCHANGED <<clock, call>>

\* the response arrives within the timeout: let e_time = get_timestamp();
\* parse_response, the inserts and response_sender.send(metrics)
Q_Response ==
    /\ UNCHANGED outsideRequest
    /\ rq.pc = "posted"
    /\ \E d \in 0..MaxDelay, reply \in Replies(call.api, call) :
         /\ d < 1000 * rq.timeout
         /\ clock' = clock + d
         /\ IF parse_response(call.api, reply.r).panic
              THEN /\ rq' = [rq EXCEPT !.pc = "panicked"]
                   /\ UNCHANGED emitted
              ELSE /\ rq' = [rq EXCEPT !.pc = "sent", !.reply = <<reply>>]
                   /\ emitted' = Append(emitted,
                                   InsertAll(ParsedMap(call.api, reply), call.mode,
                                             call, rq.s_time, clock'))
    /\ UNCHANGED call

\* no response within the timeout: request_with_timeout returns Err
Q_Timeout ==
    /\ UNCHANGED outsideRequest
    /\ rq.pc = "posted"
    /\ clock' = clock + 1000 * rq.timeout
    /\ rq' = [rq EXCEPT !.pc = "failed"]
    /\ UNCHANGED <<call, emitted>>

RequestNext == Q_Tick \/ Q_Begin \/ Q_Response \/ Q_Timeout

\* a request task of any loop and adapter, spawned for an entry of any output
\* length
RequestInit ==
    /\ FreshRun("replay", "Distserve", DueAtOnce, 1)
    /\ Rest({"request"})
    /\ \E m \in Modes, a \in Apis, ol \in 0..MaxOutputLength, nt \in {0, MaxStartDelay} :
         RequestFresh([mode |-> m, api |-> a, data_index |-> 0, input_length |-> 1,
                       output_length |-> ol, next_timestamp |-> nt])

RequestSpec == RequestInit /\ [][RequestNext]_vars

(* ----------------------- claims on the request task --------------------- *)
\* C21: every metrics record a request task emits carries s_time and e_time,
\* both read from the run clock of its loop, with s_time <= e_time.
C21_TimesInEveryRecord ==
    \A i \in DOMAIN emitted :
        /\ {"s_time", "e_time"} \subseteq DOMAIN emitted[i]
        /\ emitted[i]["s_time"] <= emitted[i]["e_time"]

\* C22: when parse_response yields a key the dispatcher also sets (input_length
\* or output_length as the server reported them), the emitted record carries
\* the value the server reported.
C22_ServerValueKept ==
    \A i \in DOMAIN emitted :
        rq.reply # << >> =>
            \A k \in {"input_length", "output_length"} \cap
                       DOMAIN ParsedMap(call.api, rq.reply[1]) :
                emitted[i][k] = ParsedMap(call.api, rq.reply[1])[k]

\* C23: the timeout passed to the HTTP call is max(180, floor(0.4 * output_length))
\* seconds: the whole number f of seconds with 5f <= 2 * output_length < 5(f + 1),
\* or 180 when f is less; it is at least 15 s and no shorter output length has
\* a longer timeout.
C23_Timeout ==
    rq.pc = "posted" =>
        /\ \E f \in 0..call.output_length :
              /\ 5 * f <= 2 * call.output_length
              /\ 2 * call.output_length < 5 * (f + 1)
              /\ rq.timeout >= 180
              /\ rq.timeout >= f
              /\ rq.timeout \in {180, f}
        /\ rq.timeout >= 15
        /\ \A n \in 0..call.output_length : request_timeout(n) <= rq.timeout

\* a request was posted for an output length whose timeout exceeds 180 s
C23_Witness == rq.pc = "posted" /\ call.output_length > 450 /\ rq.timeout > 180

(* ----------------- report_loop in detail (src/requester.rs) ------------- *)
(* The metrics channel with its senders, the BufWriter and the output file. *)
(* A record is a positive number, the byte b"\n" is 0.                      *)

NEWLINE == 0

\* faulty variant: the buffer is dropped without reaching the file
flush_Dropped(f, b) == f

\* buf_writer.flush(): the buffered bytes reach the file, in order
flush(f, b) == f \o b

\* a holder of a sender sends a record: response_sender.send(metrics)
M_Send ==
    /\ UNCHANGED outsideReport
    /\ senders > 0
    /\ Len(sentlog) < MaxRecords
    /\ \E metrics \in 1..MaxRecords :
         /\ channel' = Append(channel, metrics)
         /\ sentlog' = Append(sentlog, metrics)
    /\ UNCHANGED <<senders, rp, buf_writer, file>>

\* a sender is dropped (its task returned)
M_Drop ==
    /\ UNCHANGED outsideReport
    /\ senders > 0
    /\ senders' = senders - 1
    /\ UNCHANGED <<channel, sentlog, rp, buf_writer, file>>

\* while let Ok(metrics) = response_receiver.recv_async().await {
\*     let line = serde_json::to_string(&metrics).unwrap();
L_Recv ==
    /\ UNCHANGED outsideReport
    /\ rp.pc = "recv"
    /\ channel # << >>
    /\ rp' = [pc |-> "write_line", line |-> Head(channel)]
    /\ channel' = Tail(channel)
    /\ UNCHANGED <<senders, sentlog, buf_writer, file>>

\* buf_writer.write_all(line.as_bytes()).await.unwrap();
L_WriteLine ==
    /\ UNCHANGED outsideReport
    /\ rp.pc = "write_line"
    /\ buf_writer' = Append(buf_writer, rp.line)
    /\ rp' = [rp EXCEPT !.pc = "write_newline"]
    /\ UNCHANGED <<channel, senders, sentlog, file>>

\* buf_writer.write_all(b"\n").await.unwrap();
L_WriteNewline ==
    /\ UNCHANGED outsideReport
    /\ rp.pc = "write_newline"
    /\ buf_writer' = Append(buf_writer, NEWLINE)
    /\ rp' = [rp EXCEPT !.pc = "flush"]
    /\ UNCHANGED <<channel, senders, sentlog, file>>

\* buf_writer.flush().await.unwrap(); }
L_Flush ==
    /\ UNCHANGED outsideReport
    /\ rp.pc = "flush"
    /\ file' = flush(file, buf_writer)
    /\ buf_writer' = << >>
    /\ rp' = [pc |-> "recv", line |-> 0]
    /\ UNCHANGED <<channel, senders, sentlog>>

\* recv_async() yields Err: the channel is drained and every sender is dropped;
\* report_loop returns
L_Return ==
    /\ UNCHANGED outsideReport
    /\ rp.pc = "recv"
    /\ channel = << >>
    /\ senders = 0
    /\ rp' = [rp EXCEPT !.pc = "done"]
    /\ UNCHANGED <<channel, senders, sentlog, buf_writer, file>>

ReportLoop == L_Recv \/ L_WriteLine \/ L_WriteNewline \/ L_Flush \/ L_Return

ReportNext == M_Send \/ M_Drop \/ ReportLoop

\* report_loop spawned on an empty file and an empty channel with its senders
ReportInit ==
    /\ FreshRun("replay", "Distserve", DueAtOnce, 1)
    /\ Rest({"report"})
    /\ \E n \in 1..MaxSenders : ReportFresh(n)

\* the executor keeps polling the reporter task
ReportFairSpec == ReportInit /\ [][ReportNext]_vars /\ WF_vars(ReportLoop)

(* ------------------------- claims on the reporter ----------------------- *)
\* the lines of a sequence of records: each record followed by a newline
RECURSIVE LinesOf(_)
LinesOf(records) ==
    IF records = << >> THEN << >>
    ELSE <<Head(records), NEWLINE>> \o LinesOf(Tail(records))

\* C24: whenever report_loop waits for a record or has returned, the file holds
\* exactly one line per record received so far, in the order received, and
\* nothing is left in the buffer; it returns only with every sender dropped and
\* the channel drained, and once every sender is dropped it does return; with
\* no record sent the file is empty.
C24_ReportLoop ==
    /\ [](rp.pc \in {"recv", "done"} =>
            /\ file \o LinesOf(channel) = LinesOf(sentlog)
            /\ buf_writer = << >>)
    /\ [](rp.pc = "done" => senders = 0 /\ channel = << >>)
    /\ (senders = 0 ~> rp.pc = "done")

\* report_loop has returned after writing the lines of several records
C24_Witness ==
    rp.pc = "done" /\ Len(sentlog) >= 2 /\ file = LinesOf(sentlog)

(* ------------------- the trace loaders (src/dataset.rs) ----------------- *)
(* load_mooncake_jsonl, load_burstgpt_csv, load_azure_csv and               *)
(* cherry_pick_burstgpt on a file whose lines carry an input length, an     *)
(* output length and, in the BurstGPT format, a log type. The lines of      *)
(* cherry_pick_burstgpt are those inside its time window.                   *)

LongContext == 4096

\* u64 arithmetic is modulo 2^64; the model keeps the wrap with a word of 30
\* bits, wider than every length a line carries
U64 == 2^30

Loaders == {"mooncake_jsonl", "burstgpt_csv", "azure_csv", "cherry_pick_burstgpt"}

\* the lines a trace file can hold
Lines ==
    [input_length : {1, 4000, LongContext - 1},
     output_length : {1, 96, LongContext},
     log_type : {"Conversation log", "other"}]

\* the traces of up to MaxLines lines
TraceFiles == UNION {[1..n -> Lines] : n \in 0..MaxLines}

\* what a loader makes of one line: the pair it would push, and whether the
\* pair went through input_length = 4095 - output_length
load_record(kind, line, prefill_only, filter_long_context) ==
    IF kind = "mooncake_jsonl"
      THEN IF ~filter_long_context
                /\ line.input_length + line.output_length >= LongContext
             THEN [input_length |-> (LongContext - 1) - line.output_length,
                   output_length |-> line.output_length, rewritten |-> TRUE]
             ELSE [input_length |-> line.input_length,
                   output_length |-> IF prefill_only THEN 1 ELSE line.output_length,
                   rewritten |-> FALSE]
      ELSE LET output_length == IF prefill_only THEN 1 ELSE line.output_length
           IN  IF ~filter_long_context
                    /\ line.input_length + output_length >= LongContext
                 THEN [input_length |-> (LongContext - 1) - output_length,
                       output_length |-> output_length, rewritten |-> TRUE]
                 ELSE [input_length |-> line.input_length,
                       output_length |-> output_length, rewritten |-> FALSE]

\* if log_type == "Conversation log" || log_type == "API log": the BurstGPT
\* loaders push only the lines of these log types
Pushed(kind, line) ==
    kind \in {"burstgpt_csv", "cherry_pick_burstgpt"}
        => line.log_type \in {"Conversation log", "API log"}

\* the loop body on the next line of the file: 4095 - output_length below zero
\* panics in a build with overflow checks and wraps in a build without
Ld_Line ==
    /\ UNCHANGED outsideLoader
    /\ ld.pc = "reading"
    /\ ld.lines # << >>
    /\ LET r == load_record(ld.kind, Head(ld.lines), ld.prefill_only,
                            ld.filter_long_context)
           entry == [input_length |-> r.input_length % U64,
                     output_length |-> r.output_length]
       IN  \/ /\ r.rewritten /\ r.input_length < 0
              /\ ld' = [ld EXCEPT !.pc = "panicked"]
           \/ ld' = [ld EXCEPT !.lines = Tail(@),
                               !.requests = IF Pushed(ld.kind, Head(ld.lines))
                                              THEN Append(@, entry) ELSE @]

\* after the last line: requests.shuffle(..) when shuffle is set, then
\* round_time = last + last / (requests.len() - 1), which panics on a trace of
\* fewer than two requests, and the Dataset is returned
Ld_Finish ==
    /\ UNCHANGED outsideLoader
    /\ ld.pc = "reading"
    /\ ld.lines = << >>
    /\ IF Len(ld.requests) < 2
         THEN ld' = [ld EXCEPT !.pc = "panicked"]
         ELSE \E p \in [1..Len(ld.requests) -> 1..Len(ld.requests)] :
                /\ \A i, j \in DOMAIN p : p[i] = p[j] => i = j
                /\ ld.shuffle \/ \A i \in DOMAIN p : p[i] = i
                /\ ld' = [ld EXCEPT !.pc = "loaded",
                                    !.requests = [i \in DOMAIN p |-> ld.requests[p[i]]]]

LoaderNext == Ld_Line \/ Ld_Finish

\* any loader called with any flags on any trace file
LoaderInit ==
    /\ FreshRun("replay", "Distserve", DueAtOnce, 1)
    /\ Rest({"loader"})
    /\ \E k \in Loaders, sh \in BOOLEAN, po \in BOOLEAN, flc \in BOOLEAN,
          f \in TraceFiles :
         LoaderFresh([kind |-> k, shuffle |-> sh, prefill_only |-> po,
                      filter_long_context |-> flc, lines |-> f])

LoaderSpec == LoaderInit /\ [][LoaderNext]_vars

(* ------------------------ claims on the trace loaders ------------------- *)
\* C25: in every loader the loaded trace has no entry with input + output >=
\* 4096: with filter_long_context set such a line is dropped, with it unset the
\* line is kept and rewritten to (4095 - output_length, output_length).
C25_LongContext ==
    ld.pc = "loaded" =>
        \A i \in DOMAIN ld.requests :
              ld.requests[i].input_length + ld.requests[i].output_length
                  <= LongContext - 1

\* C26: with prefill_only set every entry of the loaded trace has output_length
\* 1, in every loader and for either value of filter_long_context.
C26_PrefillOnly ==
    ld.pc = "loaded" /\ ld.prefill_only =>
        \A i \in DOMAIN ld.requests : ld.requests[i].output_length = 1

(* ------------ generate_block, its loop (src/token_sampler.rs) ----------- *)
(* The sampler above takes a call of generate_block as the block it returns. *)
(* Here the call is followed pass by pass, with the passes that miss length *)
(* n counted.                                                               *)

\* match n { 0 => .., 1 => .., 2 => .., _ => {} }: the sizes below 3 return at
\* once, the others enter the loop
B_Match ==
    /\ UNCHANGED outsideGen
    /\ gen.pc = "match"
    /\ IF gen.n < 3
         THEN \E r \in generate_block(gen.n, gen.tk) :
                gen' = [gen EXCEPT !.pc = "returned", !.result = r]
         ELSE gen' = [gen EXCEPT !.pc = "loop"]

\* one pass of loop { .. }: draw 2n ids, decode, encode, truncate to n - 2,
\* decode, wrap in the splitter, re-encode; if reencoded_len == n return the
\* result, else go round again
B_Pass ==
    /\ UNCHANGED outsideGen
    /\ gen.pc = "loop"
    /\ gen.rejections <= MaxRejections
    /\ \E tokens \in Draws(gen.n, gen.tk) :
         LET result == Candidate(tokens, gen.n, gen.tk)
         IN  IF Accepts(result, gen.n, gen.tk)
               THEN gen' = [gen EXCEPT !.pc = "returned", !.tokens = tokens,
                                       !.result = result]
               ELSE gen' = [gen EXCEPT !.tokens = tokens, !.result = result,
                                       !.rejections = @ + 1]

GenNext == B_Match \/ B_Pass

\* generate_block called with a size and a tokenizer
GenInit ==
    /\ FreshRun("replay", "Distserve", DueAtOnce, 1)
    /\ Rest({"gen"})
    /\ \E n \in 0..BlockSize, tk \in Tokenizers : GenFresh(n, tk)

GenSpec == GenInit /\ [][GenNext]_vars

(* ------------------------ claims on generate_block ---------------------- *)
\* C28: the rejection loop that builds a block of n >= 3 tokens is bounded: a
\* call of generate_block makes no more than a fixed number of passes that miss
\* length n, here MaxRejections.
C28_BoundedRejections == gen.rejections <= MaxRejections

(* ------------------------ claims on producer shutdown ------------------- *)
\* C27: once the sampler's channels disconnect (the receiver of the primary
\* queue and the refill-request sender are dropped), every producer thread
\* eventually leaves its loop and exits, whether it was sending to the primary
\* queue or parked on the refill-request channel.
C27_ProducersExit ==
    ~connected ~> \A p \in Producers : producer[p].pc = "exited"

\* the sampler is dropped and every producer has exited, with refill requests
\* served on the way
C27_Witness ==
    /\ ~connected
    /\ \A p \in Producers : producer[p].pc = "exited"
    /\ \E c \in Consumers : consumer[c].calls > 0

(* ------------------------ claims on the admission gate ------------------ *)
\* floor(timestamp(i) / scale_factor): the whole number f of milliseconds with
\* f * scale_factor <= timestamp(i) < (f + 1) * scale_factor
send_at(i) ==
    CHOOSE f \in 0..timestamps[i] :
        f * scale_factor <= timestamps[i] /\ timestamps[i] < (f + 1) * scale_factor

\* C30: in the replay and debug loops the request for entry i is never spawned
\* earlier than send_at(i) - 1 ms on the run clock, and the dispatcher sleeps
\* before entry i only when send_at(i) > now + 1, for exactly send_at(i) - now ms.
C30_AdmissionGate ==
    /\ [](mode # "synthetic" /\ dpc \in {"inflate", "push"}
            => now >= send_at(data_index) - 1)
    /\ [][mode # "synthetic" /\ dpc = "gate" /\ dpc' = "sleep"
            => /\ send_at(data_index) > now + 1
               /\ wake' - now = send_at(data_index) - now]_vars

\* the replay dispatcher slept before an entry and spawned its request
C30_Witness ==
    /\ mode = "replay"
    /\ dpc = "push"
    /\ wake > 0
    /\ wake = send_at(data_index)
    /\ data_index \in {spawned[k] : k \in DOMAIN spawned}

(* ------------- claims on the schedule, the stop and the shutdown ---------- *)
RECURSIVE Sum(_)
Sum(q) == IF q = <<>> THEN 0 ELSE Head(q) + Sum(Tail(q))

\* C31: in synthetic mode the running timestamp is advanced by exactly one drawn
\* interval per dispatch and never reset to the current time: the scheduled time
\* of the k-th request is the start time plus the sum of the first k-1 intervals.
C31_ScheduleIsSumOfIntervals ==
    mode = "synthetic" =>
      /\ \A k \in DOMAIN history.scheduled :
           /\ k - 1 <= Len(history.intervals)
           /\ history.scheduled[k] =
                history.start + Sum(SubSeq(history.intervals, 1, k - 1))
      /\ Len(history.intervals) <= Len(history.scheduled)
      /\ dpc # "start" => timestamp = history.start + Sum(history.intervals)

\* the second request is spawned after a positive interval, later than scheduled
C31_Witness ==
    /\ mode = "synthetic"
    /\ Len(history.scheduled) = 2
    /\ history.intervals[1] > 0
    /\ history.start > 0
    /\ dpc = "push"
    /\ now > history.scheduled[2]

\* C37: when the dispatcher has exited before run_time elapses, the supervisor's
\* stop send does not panic.
C37_LateStopDoesNotPanic ==
    [][spc = "sleep" /\ dpc = "done" => spc' # "panicked"]_vars

\* C39: once the stop signal is sent the dispatcher spawns at most one further
\* request task, in every mode.
C39_AtMostOneSpawnAfterStop ==
    stop # "empty" => Len(spawned) <= history.spawned_at_stop + 1

\* the dispatcher has seen the stop after one more spawn
C39_Witness ==
    /\ stop = "taken"
    /\ dpc = "done"
    /\ Len(spawned) = history.spawned_at_stop + 1

\* C40: when the supervisor's join of the reporter has returned, no request task
\* can send any more and every record sent has been written to the output.
C40_NoRecordLost ==
    spc = "done" =>
      /\ response = <<>>
      /\ \A i \in Indices : task[i] # "running"
      /\ \A i \in Indices :
           task[i] \in {"responded", "rejected"} =>
             \E k \in DOMAIN output : output[k].index = i

\* the run has completed with the records of both requests in the output
C40_Witness ==
    /\ spc = "done"
    /\ Len(output) >= 2
(* ------------- claims on gen_string, the producers and the warm-up -------- *)
\* C32: a gen_string(B) call eventually returns a block while the producers
\* run, whatever the other consumers call: neither the receiver mutex nor the
\* bounded queues keep it waiting for ever.
C32_PrimaryCallReturns ==
    \A c \in Consumers :
        (consumer[c].pc \in {"recv", "locked"}) ~> (consumer[c].pc = "returned")

\* one caller has returned from gen_string(B) and passed the guard of the
\* receiver mutex on to another caller
C32_Witness ==
    \E c, d \in Consumers :
        /\ consumer[c].pc = "returned"
        /\ consumer[c].n = block_size
        /\ consumer[d].pc = "locked"

\* the step of consumer c that ends its gen_string(n) call for a ragged size n
RaggedCallEnds(c) ==
    /\ consumer[c].pc = "ragged"
    /\ consumer[c].n \in RaggedSizes(block_size)
    /\ consumer'[c].pc # "ragged"

\* C33: for 0 < n < B a gen_string(n) call takes at most one block from the pool
\* of size n without waiting, sends exactly one refill request for n on a hit
\* and on a miss, and on a miss returns a block synthesized inline.
C33_RaggedCall ==
    [][\A c \in Consumers :
         RaggedCallEnds(c) =>
           LET n == consumer[c].n
           IN  /\ consumer'[c].pc = "returned"
               /\ notify' = Append(notify, n)
               /\ IF ragged[n] # << >>
                    THEN /\ ragged' = [ragged EXCEPT ![n] = Tail(@)]
                         /\ consumer'[c].ret = Head(ragged[n])
                    ELSE /\ ragged' = ragged
                         /\ consumer'[c].ret \in Blocks[tokenizer][n]]_vars

\* the same with the ragged_block_cache mutex not poisoned
C33_RaggedCallUnpoisoned ==
    [][\A c \in Consumers :
         RaggedCallEnds(c) /\ ~poisoned =>
           LET n == consumer[c].n
           IN  /\ consumer'[c].pc = "returned"
               /\ notify' = Append(notify, n)
               /\ IF ragged[n] # << >>
                    THEN /\ ragged' = [ragged EXCEPT ![n] = Tail(@)]
                         /\ consumer'[c].ret = Head(ragged[n])
                    ELSE /\ ragged' = ragged
                         /\ consumer'[c].ret \in Blocks[tokenizer][n]]_vars

\* a refill request leaves the notification channel in this step
Serviced == Len(notify') < Len(notify)

\* C34: a refill request is serviced only by a producer whose non-blocking send
\* found the primary queue full in this iteration; the service adds at most one
\* block to the pool of the requested size and none when that pool is full.
C34_RefillService ==
    /\ [](\A size \in DOMAIN ragged : Len(ragged[size]) <= channel_capacity)
    /\ [][Serviced =>
            \E p \in Producers :
              /\ producer[p].pc = "listen"
              /\ producer[p].local_sample # << >>
              /\ producer'[p].pc = "offer"
              /\ notify' = Tail(notify)
              /\ LET size == Head(notify)
                 IN  /\ size \in DOMAIN ragged
                     /\ \A m \in DOMAIN ragged \ {size} : ragged'[m] = ragged[m]
                     /\ IF Len(ragged[size]) < channel_capacity
                          THEN \E blk \in Blocks[tokenizer][size] :
                                 ragged'[size] = Append(ragged[size], blk)
                          ELSE ragged'[size] = ragged[size]]_vars
    /\ [][constructed /\ ~Serviced =>
            \A size \in DOMAIN ragged : Len(ragged'[size]) <= Len(ragged[size])]_vars

\* a producer that found the primary queue full is about to serve a request
\* for a pool that is full
C34_Witness ==
    /\ notify # << >>
    /\ Len(ragged[Head(notify)]) = channel_capacity
    /\ \E p \in Producers : producer[p].pc = "listen"

\* C35: while the primary queue is connected a producer never discards a block
\* of the primary size: on a full queue the block is retained, a producer
\* retains at most one block, and the retained block is the next one it offers.
C35_BlockRetained ==
    /\ [](\A p \in Producers : Len(producer[p].local_sample) <= 1)
    /\ [][\A p \in Producers :
            connected /\ producer'[p] # producer[p] =>
              IF producer[p].pc = "offer"
                THEN \/ /\ Len(primary) < channel_capacity
                        /\ \E blk \in Blocks[tokenizer][block_size] :
                             /\ primary' = Append(primary, blk)
                             /\ producer[p].local_sample # << >> =>
                                  blk = producer[p].local_sample[1]
                        /\ producer'[p].local_sample = << >>
                     \/ /\ Len(primary) = channel_capacity
                        /\ primary' = primary
                        /\ Len(producer'[p].local_sample) = 1
                        /\ producer[p].local_sample # << >> =>
                             producer'[p].local_sample = producer[p].local_sample
                ELSE producer'[p].local_sample = producer[p].local_sample]_vars

\* a retained block has entered the primary queue once a consumer made room
C35_Witness ==
    \E p \in Producers, c \in Consumers :
        /\ connected
        /\ producer[p].pc = "offer"
        /\ producer[p].local_sample = << >>
        /\ Len(primary) = channel_capacity
        /\ consumer[c].pc = "returned"
        /\ consumer[c].n = block_size

\* C38: TokenSampler::new returns for every channel capacity and block size: no
\* warm-up send waits on a full pool.
C38_WarmupNeverBlocks ==
    ~(/\ ~constructed
      /\ warm.i \in RaggedSizes(block_size)
      /\ Len(warm.pool) >= channel_capacity)
(* -------------------- claims on writer priority and stop ---------------- *)
\* C36: writer priority persists: while a thread is admitted as waiting writer
\* and has not acquired the write lock yet, the waiting bit stays set (no other
\* thread's unlock clears it) and no read_lock call succeeds.
C36_WriterPriorityPersists ==
    /\ [](\A t \in AdmittedWaiters : state.waiter)
    /\ [][\A t \in AdmittedWaiters :
             t \in AdmittedWaiters' => Readers' \subseteq Readers]_vars

====
